---- MODULE Spec2Model ----
(***************************************************************************)
(* Model of the Bark dashboard's submission / streaming / reconciliation   *)
(* pipeline: frontend/main.js (buildPayload, validate, toJobStatus,        *)
(* upsertJob, updateJobProgress, handleAudioPlayback, handlePrompt) and    *)
(* frontend/src/api.ts (parseSseChunk, createSynthesisJob, fetchAudioBlob).*)
(*                                                                         *)
(* Text is a sequence of one-character strings.  Numbers with one decimal  *)
(* (the temperatures) are kept in tenths: 0.7 is 7, 1.5 is 15.             *)
(***************************************************************************)
EXTENDS Integers, Sequences, FiniteSets, TLC

\* ------------------------------------------------------------------------
\* Text helpers: the String methods the code uses
\* ------------------------------------------------------------------------

\* The characters String.prototype.trim removes, as far as they occur here.
Whitespace == {" ", "\n"}

NL == "\n"

\* The message separator of parseSseChunk: buffer.split('\n\n').
BlankLine == <<NL, NL>>

\* The marker of a data line: l.startsWith('data:').
DataMarker == <<"d", "a", "t", "a", ":">>

Min(S) == CHOOSE m \in S : \A n \in S : m <= n

\* s.indexOf(sep) + 1, and 0 when sep does not occur in s.
IndexOf(s, sep) ==
    LET hits == {i \in 1..(Len(s) - Len(sep) + 1) :
                    SubSeq(s, i, i + Len(sep) - 1) = sep}
    IN IF hits = {} THEN 0 ELSE Min(hits)

\* s.split(sep): the pieces between the occurrences of sep, found left to right.
RECURSIVE Split(_, _)
Split(s, sep) ==
    LET i == IndexOf(s, sep)
    IN IF i = 0
       THEN <<s>>
       ELSE <<SubSeq(s, 1, i - 1)>> \o Split(SubSeq(s, i + Len(sep), Len(s)), sep)

\* s.trim()
RECURSIVE Trim(_)
Trim(s) ==
    IF s = <<>> THEN s
    ELSE IF Head(s) \in Whitespace THEN Trim(Tail(s))
    ELSE IF s[Len(s)] \in Whitespace THEN Trim(SubSeq(s, 1, Len(s) - 1))
    ELSE s

\* s.startsWith(p)
StartsWith(s, p) == Len(s) >= Len(p) /\ SubSeq(s, 1, Len(p)) = p

\* The concatenation of a sequence of texts.
RECURSIVE Concat(_)
Concat(ss) == IF ss = <<>> THEN <<>> ELSE Head(ss) \o Concat(Tail(ss))

\* ------------------------------------------------------------------------
\* Job statuses and the payloads a stream or a response can carry
\* ------------------------------------------------------------------------

Statuses == {"planned", "queued", "running", "completed", "failed"}

Terminal == {"completed", "failed"}

\* Job ids the service issues.  'job-playwright' of the test mock is one id
\* answered to every submission, so an id can come back in a later response.
ServerIds == {"j1", "j2"}

NoArtifacts == {}

AudioArtifacts == {<<"audio", "/a.wav">>}

\* artifacts.audio: the path stored under "audio", FALSE standing for undefined.
HasAudio(artifacts) == \E a \in artifacts : a[1] = "audio"

\* The JSON documents of the streamed events, each written as a one-letter
\* text.  A field an event does not carry is absent from the record.  F names
\* the temporary id of a submission made at clock reading 0.
EventTable ==
    [A |-> [job_id |-> "j1", progress |-> 40],
     B |-> [job_id |-> "j1", status |-> "completed", artifacts |-> AudioArtifacts],
     C |-> [job_id |-> "j1", status |-> "running", progress |-> 150],
     D |-> [job_id |-> "j2", status |-> "queued", progress |-> -5],
     E |-> [status |-> "running", progress |-> 60],
     F |-> [job_id |-> "job-0", status |-> "running", progress |-> 60]]

EventCodes == DOMAIN EventTable

\* JSON.parse(text) succeeds: the text is one of the documents above, or null.
IsJson(text) == Len(text) = 1 /\ (text[1] \in EventCodes \/ text[1] = "N")

\* JSON.parse(text) for a text it accepts.
JSONparse(text) ==
    IF text[1] = "N"
    THEN [kind |-> "null"]
    ELSE [kind |-> "object", value |-> EventTable[text[1]]]

\* Mutation of SinkArg: a payload JSON.parse rejects is handed on as null, its
\* text lost.
SinkArgNullOnError(text) ==
    IF IsJson(text) THEN JSONparse(text) ELSE [kind |-> "null"]

\* What parseSseChunk hands to the sink for a payload text when the sink
\* returns normally: the parsed document, or the raw text when JSON.parse throws.
SinkArg(text) ==
    IF IsJson(text) THEN JSONparse(text) ELSE [kind |-> "string", value |-> text]

\* ------------------------------------------------------------------------
\* StreamFrameDecoder: TextDecoder and parseSseChunk
\* ------------------------------------------------------------------------

\* The one two-byte character of the model and its UTF-8 bytes.
WideChar == "U"
LeadByte == "u1"
TrailByte == "u2"
Replacement == "?"

\* new TextDecoder().decode(value, {stream: true}) on the bytes the decoder
\* holds back from the last call followed by this chunk: the decoded text and
\* the bytes of an incomplete character, held back for the next call.
RECURSIVE Utf8Decode(_)
Utf8Decode(bytes) ==
    IF bytes = <<>> THEN [text |-> <<>>, pending |-> <<>>]
    ELSE IF Head(bytes) = LeadByte
    THEN IF Len(bytes) = 1
         THEN [text |-> <<>>, pending |-> bytes]
         ELSE IF bytes[2] = TrailByte
         THEN LET r == Utf8Decode(SubSeq(bytes, 3, Len(bytes)))
              IN [text |-> <<WideChar>> \o r.text, pending |-> r.pending]
         ELSE LET r == Utf8Decode(Tail(bytes))
              IN [text |-> <<Replacement>> \o r.text, pending |-> r.pending]
    ELSE LET r == Utf8Decode(Tail(bytes))
             c == IF Head(bytes) = TrailByte THEN Replacement ELSE Head(bytes)
         IN [text |-> <<c>> \o r.text, pending |-> r.pending]

\* The UTF-8 bytes of a text.
RECURSIVE Utf8Encode(_)
Utf8Encode(text) ==
    IF text = <<>> THEN <<>>
    ELSE (IF Head(text) = WideChar THEN <<LeadByte, TrailByte>> ELSE <<Head(text)>>)
         \o Utf8Encode(Tail(text))

\* message.split('\n').map(l => l.trim()).find(l => l.startsWith('data:')):
\* the lines of the message that are data lines, trimmed, in order.
DataLines(message) ==
    SelectSeq([i \in 1..Len(Split(message, <<NL>>)) |-> Trim(Split(message, <<NL>>)[i])],
              LAMBDA l : StartsWith(l, DataMarker))

\* line.replace('data:', '').trim() of the first data line.
PayloadOf(message) ==
    Trim(SubSeq(DataLines(message)[1], Len(DataMarker) + 1, Len(DataLines(message)[1])))

\* Mutation of PayloadTexts: the messages are walked from the last to the first.
RECURSIVE PayloadTextsReversed(_)
PayloadTextsReversed(messages) ==
    IF messages = <<>> THEN <<>>
    ELSE PayloadTextsReversed(Tail(messages))
         \o (IF DataLines(Head(messages)) = <<>> THEN <<>> ELSE <<PayloadOf(Head(messages))>>)

\* The payload texts of the messages, in order, the messages without a data
\* line left out (if (!line) continue).
RECURSIVE PayloadTexts(_)
PayloadTexts(messages) ==
    IF messages = <<>> THEN <<>>
    ELSE (IF DataLines(Head(messages)) = <<>> THEN <<>> ELSE <<PayloadOf(Head(messages))>>)
         \o PayloadTexts(Tail(messages))

\* Mutation of parseSseChunk: the text after the last blank line is dropped
\* instead of being returned as the remainder.
parseSseChunkNoRemainder(buffer) ==
    LET messages == Split(buffer, BlankLine)
    IN [payloads  |-> PayloadTexts(SubSeq(messages, 1, Len(messages) - 1)),
        remainder |-> <<>>]

\* Mutation of parseSseChunk: the text after the last blank line is taken for
\* a message as well.
parseSseChunkEmitsAll(buffer) ==
    [payloads  |-> PayloadTexts(Split(buffer, BlankLine)),
     remainder |-> <<>>]


\* parseSseChunk(buffer, onEvent): the payload texts of the completed messages,
\* in the order the sink is called with them, and the remainder it returns.
parseSseChunk(buffer) ==
    LET messages == Split(buffer, BlankLine)
    IN [payloads  |-> PayloadTexts(SubSeq(messages, 1, Len(messages) - 1)),
        remainder |-> messages[Len(messages)]]

\* One turn of the read loop of createSynthesisJob on a chunk of bytes:
\* buffer += decoder.decode(value, {stream: true}); buffer = parseSseChunk(buffer, onEvent).
ReadChunk(buffer, pending, chunk) ==
    LET dec == Utf8Decode(pending \o chunk)
        res == parseSseChunk(buffer \o dec.text)
    IN [buffer |-> res.remainder, pending |-> dec.pending, payloads |-> res.payloads]

\* ------------------------------------------------------------------------
\* RequestValidator: buildPayload and validate
\* ------------------------------------------------------------------------

\* A JavaScript number: NaN, or a value (temperatures in tenths).
NaN == [nan |-> TRUE, v |-> 0]
Num(n) == [nan |-> FALSE, v |-> n]

\* a < b and a > b on JavaScript numbers: false as soon as one side is NaN.
Lt(a, b) == ~a.nan /\ ~b.nan /\ a.v < b.v
Gt(a, b) == ~a.nan /\ ~b.nan /\ a.v > b.v
Le(a, b) == ~a.nan /\ ~b.nan /\ a.v <= b.v

\* A number is truthy unless it is 0 or NaN.
Truthy(a) == ~a.nan /\ a.v # 0

\* Number(value) for the values of the two temperature inputs, in tenths.
TempInputs ==
    [empty |-> Num(0), abc |-> NaN, minus01 |-> Num(-1), zero |-> Num(0),
     p07 |-> Num(7), p15 |-> Num(15), p16 |-> Num(16)]

\* Number(value) for the values of the fps select.
FpsInputs ==
    [empty |-> Num(0), abc |-> NaN, minus1 |-> Num(-1), zero |-> Num(0),
     f24 |-> Num(24), f30 |-> Num(30)]

\* value.split('x').map(Number) for the values of the resolution select.
ResolutionInputs ==
    [r1920x1080 |-> <<Num(1920), Num(1080)>>, abc |-> <<NaN>>,
     r0x0 |-> <<Num(0), Num(0)>>, empty |-> <<Num(0)>>]

\* The values of the prompt textarea.
PromptInputs == {<<>>, <<" ">>, <<"a">>, <<" ", "b", NL>>}

\* The default of both temperatures, 0.7, and their upper limit, 1.5.
DefaultTemp == 7
MaxTemp == 15

\* buildPayload(): the fields validate and the request body read.
buildPayload(form) ==
    [text         |-> Trim(form.textPrompt),
     resolution   |-> ResolutionInputs[form.videoResolution],
     fps          |-> FpsInputs[form.videoFps],
     textTemp     |-> IF Truthy(TempInputs[form.textTemp])
                      THEN TempInputs[form.textTemp] ELSE Num(DefaultTemp),
     waveformTemp |-> IF Truthy(TempInputs[form.waveformTemp])
                      THEN TempInputs[form.waveformTemp] ELSE Num(DefaultTemp),
     dryRun       |-> form.dryRun,
     renderVideo  |-> form.renderVideo]

ErrPrompt == "Prompt cannot be empty."
ErrTextTemp == "Text temperature must be 0-1.5."
ErrWaveformTemp == "Waveform temperature must be 0-1.5."
ErrFps == "FPS must be greater than zero."

\* Mutation of validate: the upper limit of the temperatures is exclusive.
validateExclusiveMax(payload) ==
    (IF payload.text = <<>> THEN <<ErrPrompt>> ELSE <<>>)
    \o (IF Lt(payload.textTemp, Num(0)) \/ ~Lt(payload.textTemp, Num(MaxTemp))
        THEN <<ErrTextTemp>> ELSE <<>>)
    \o (IF Lt(payload.waveformTemp, Num(0)) \/ ~Lt(payload.waveformTemp, Num(MaxTemp))
        THEN <<ErrWaveformTemp>> ELSE <<>>)
    \o (IF Le(payload.fps, Num(0)) THEN <<ErrFps>> ELSE <<>>)

\* Mutation of validate: the waveform temperature is not checked.
validateNoWaveform(payload) ==
    (IF payload.text = <<>> THEN <<ErrPrompt>> ELSE <<>>)
    \o (IF Lt(payload.textTemp, Num(0)) \/ Gt(payload.textTemp, Num(MaxTemp))
        THEN <<ErrTextTemp>> ELSE <<>>)
    \o (IF Le(payload.fps, Num(0)) THEN <<ErrFps>> ELSE <<>>)

\* validate(payload): the error messages, in the order they are pushed.
validate(payload) ==
    (IF payload.text = <<>> THEN <<ErrPrompt>> ELSE <<>>)
    \o (IF Lt(payload.textTemp, Num(0)) \/ Gt(payload.textTemp, Num(MaxTemp))
        THEN <<ErrTextTemp>> ELSE <<>>)
    \o (IF Lt(payload.waveformTemp, Num(0)) \/ Gt(payload.waveformTemp, Num(MaxTemp))
        THEN <<ErrWaveformTemp>> ELSE <<>>)
    \o (IF Le(payload.fps, Num(0)) THEN <<ErrFps>> ELSE <<>>)

\* The request body handlePrompt posts, as far as the request contract names it.
requestBody(payload) ==
    [prompt        |-> payload.text,
     modalities    |-> IF payload.renderVideo THEN <<"audio", "video">> ELSE <<"audio">>,
     render_video  |-> payload.renderVideo,
     dry_run       |-> payload.dryRun,
     text_temp     |-> payload.textTemp,
     waveform_temp |-> payload.waveformTemp,
     video         |-> [resolution |-> payload.resolution, fps |-> payload.fps]]

\* ------------------------------------------------------------------------
\* JobRegistry: the jobs map of main.js and the functions that write it
\* ------------------------------------------------------------------------

\* The progress toJobStatus gives a job that is not completed, the progress
\* onEvent assumes for an event without one, and full progress.
InitialProgress == 10
DefaultEventProgress == 50
FullProgress == 100

\* `job-${Date.now()}`
TempId(t) == "job-" \o ToString(t)

\* toJobStatus(data, fallbackId, prompt) at clock reading t; data = null is
\* written NoResult.  Of a JobState the model keeps id, status, artifacts,
\* progress, createdAt and prompt; plan and updatedAt are written and never
\* read by the code modelled here.
NoResult == [kind |-> "null"]

\* Mutation of toJobStatus: the status of the document is not taken over.
toJobStatusQueued(data, fallbackId, prompt, t) ==
    LET base == IF data = NoResult
                THEN [job_id |-> fallbackId, status |-> "queued", artifacts |-> NoArtifacts]
                ELSE data.value
    IN [id        |-> base.job_id,
        status    |-> "queued",
        artifacts |-> base.artifacts,
        progress  |-> IF base.status = "completed" THEN FullProgress ELSE InitialProgress,
        createdAt |-> t,
        prompt    |-> prompt]

toJobStatus(data, fallbackId, prompt, t) ==
    LET base == IF data = NoResult
                THEN [job_id |-> fallbackId, status |-> "queued", artifacts |-> NoArtifacts]
                ELSE data.value
    IN [id        |-> base.job_id,
        status    |-> base.status,
        artifacts |-> base.artifacts,
        progress  |-> IF base.status = "completed" THEN FullProgress ELSE InitialProgress,
        createdAt |-> t,
        prompt    |-> prompt]

\* jobs.set(job.id, job) of upsertJob, on the map m.
upsertJob(m, job) ==
    [id \in DOMAIN m \cup {job.id} |-> IF id = job.id THEN job ELSE m[id]]

MinOf(a, b) == IF a <= b THEN a ELSE b

\* Mutation of updateJobProgress: the progress is written to every record.
updateJobProgressAll(m, id, progress, status) ==
    IF id \notin DOMAIN m
    THEN m
    ELSE [x \in DOMAIN m |->
            [m[x] EXCEPT !.progress = MinOf(progress, FullProgress),
                         !.status   = IF x = id /\ status # "" THEN status ELSE @]]

\* updateJobProgress(id, progress, status) on the map m; status = "" stands
\* for an absent status.
updateJobProgress(m, id, progress, status) ==
    IF id \notin DOMAIN m
    THEN m
    ELSE upsertJob(m, [m[id] EXCEPT !.progress  = MinOf(progress, FullProgress),
                                    !.status    = IF status # "" THEN status ELSE @])

\* The onEvent callback handlePrompt gives createSynthesisJob, on the map m.
onEvent(m, data) ==
    IF data.kind # "object"
    THEN m
    ELSE LET event == data.value
         IN IF "job_id" \in DOMAIN event /\ event.job_id \in DOMAIN m
            THEN updateJobProgress(
                     m, event.job_id,
                     IF "progress" \in DOMAIN event THEN event.progress
                                                    ELSE DefaultEventProgress,
                     IF "status" \in DOMAIN event THEN event.status ELSE "")
            ELSE m

\* The calls parseSseChunk makes to the sink for its payload texts, in order,
\* folded over the map m.
RECURSIVE Deliver(_, _)
Deliver(m, payloads) ==
    IF payloads = <<>> THEN m
    ELSE Deliver(onEvent(m, SinkArg(Head(payloads))), Tail(payloads))

\* The arguments of those calls, in order.
SinkArgs(payloads) == [i \in 1..Len(payloads) |-> SinkArg(payloads[i])]

\* ------------------------------------------------------------------------
\* Bounds and inputs of the model
\* ------------------------------------------------------------------------

\* Invocations of handlePrompt (clicks on the send button) in one run.
MaxSubs == 2

\* The largest reading of Date.now() in one run.
MaxClock == 1

\* Messages in the event streams of one run, all streams together.
MaxEvents == 2

\* The size of a network read that does not take all that is left of a stream.
ChunkSize == 6

\* Messages in one input of the decoder on its own.
MaxMsgs == 2

Subs == 1..MaxSubs

SeqsUpTo(S, n) == UNION {[1..k -> S] : k \in 0..n}

\* The states of the form handlePrompt reads: two that pass validation (the
\* second with an fps that is no number and an empty temperature input) and
\* three that do not.
Forms ==
    LET good == [textPrompt |-> <<"a">>, videoResolution |-> "r1920x1080",
                 videoFps |-> "f24", textTemp |-> "p07", waveformTemp |-> "p15",
                 dryRun |-> TRUE, renderVideo |-> FALSE]
    IN {good,
        [good EXCEPT !.textPrompt = <<" ", "b", NL>>, !.videoFps = "abc",
                     !.textTemp = "empty", !.dryRun = FALSE],
        [good EXCEPT !.textPrompt = <<" ">>],
        [good EXCEPT !.textTemp = "p16"],
        [good EXCEPT !.videoFps = "zero", !.waveformTemp = "minus01"]}

\* The payload texts the streams of handlePrompt carry.
StreamCodes == {"A", "B", "C", "D", "F"}

\* The streams a response can carry when n more messages may be streamed; a
\* response with a non-success status that declares an event stream has an
\* empty body.
Streams(ok, n) == IF ok THEN SeqsUpTo(StreamCodes, n) ELSE {<<>>}

\* The bytes of a stream: each message is a data line and a blank line.
Wire(stream) ==
    Utf8Encode(Concat([i \in 1..Len(stream) |->
                          DataMarker \o <<" ", stream[i]>> \o BlankLine]))

\* The JSON documents of a buffered response with a success status.
\* The third is the answer of the test mock to a dry run.
JsonBodies ==
    {[kind |-> "object", value |-> v] : v \in
        {[job_id |-> "j1", status |-> "planned", artifacts |-> NoArtifacts],
         [job_id |-> "j1", status |-> "completed", artifacts |-> AudioArtifacts],
         [job_id |-> "j1", status |-> "planned", artifacts |-> AudioArtifacts],
         [job_id |-> "j2", status |-> "running", artifacts |-> NoArtifacts]}}

\* What response.json().catch(() => ({})) gives for a response with a
\* non-success status: the error envelope, or {} (written <<>>).
ErrorBodies == {[kind |-> "object", value |-> [detail |-> "Queue full"]],
                [kind |-> "object", value |-> <<>>]}

\* ------------------------------------------------------------------------
\* State
\* ------------------------------------------------------------------------

VARIABLES
    jobs,        \* the jobs map: job id -> JobState
    now,         \* the reading of Date.now()
    subs,        \* the invocations of handlePrompt, each with its position
    formErrors,  \* what renderFormErrors rendered last
    posts,       \* POST requests issued to /api/bark/synthesize
    streamed,    \* messages in the event streams handed out so far
    locked,      \* the invocations whose response body is locked to a reader
    dMsgs, dRest, dBuffer, dPending, dSink, dPc, dCut,   \* the decoder on its own
    vForm, vErrors, vPc,                           \* the validator on its own
    rHeap,       \* the JobState objects made so far: reference -> fields
    rMap,        \* the entries [key, ref] of the jobs map, in insertion order
    rArray,      \* the array renderJobs was last called with, as references
    rShown,      \* the cards renderJobs wrote last, the fields by value
    rPc,         \* the statement the running operation of the registry is at
    rCur,        \* the call that runs or ran last: its object and arguments
    rBefore,     \* the fields of that object when the call began
    rNow,        \* the reading of Date.now() for the registry on its own
    rOps,        \* operations of the registry begun so far
    pJobId,      \* pollJob on its own: the job id it is called with
    pResponse,   \* the response its request got, if any
    pPc,         \* the await pollJob is at
    pResult,     \* what pollJob returned
    pNow         \* the reading of Date.now() for pollJob on its own

mainVars == <<jobs, now, subs, formErrors, posts, streamed, locked>>
decVars == <<dMsgs, dRest, dBuffer, dPending, dSink, dPc, dCut>>
valVars == <<vForm, vErrors, vPc>>
regVars == <<rHeap, rMap, rArray, rShown, rPc, rCur, rBefore, rNow, rOps>>
pollVars == <<pJobId, pResponse, pPc, pResult, pNow>>
vars == <<mainVars, decVars, valVars, regVars, pollVars>>

IdleSub ==
    [pc |-> "idle", tempId |-> "", text |-> <<>>, req |-> <<>>, ok |-> TRUE,
     stream |-> <<>>, rest |-> <<>>, buffer |-> <<>>, pending |-> <<>>,
     delivered |-> <<>>, result |-> NoResult, name |-> "", error |-> ""]

\* An invocation that has returned: its locals are gone, what it showed last
\* (the error message, if any) stays.
Returned(pc, error) == [IdleSub EXCEPT !.pc = pc, !.error = error]

\* The name of the errors createSynthesisJob makes itself (new Error(...)), and
\* of the error a fetch or a read rejects with when the network fails.
HttpErrorName == "Error"

NetworkErrorName == "TypeError"

MainInit ==
    /\ jobs = <<>>
    /\ now = 0
    /\ subs = [s \in Subs |-> IdleSub]
    /\ formErrors = <<>>
    /\ posts = 0
    /\ streamed = 0
    /\ locked = {}

DecIdle ==
    /\ dMsgs = <<>> /\ dRest = <<>> /\ dBuffer = <<>> /\ dPending = <<>>
    /\ dSink = <<>> /\ dPc = "off" /\ dCut = FALSE

ValIdle == vForm = <<>> /\ vErrors = <<>> /\ vPc = "off"

\* No call of the registry runs or has run.
NoCall == [op |-> "none"]

RegIdle ==
    /\ rHeap = <<>> /\ rMap = <<>> /\ rArray = <<>> /\ rShown = <<>>
    /\ rPc = "off" /\ rCur = NoCall /\ rBefore = NoCall /\ rNow = 0 /\ rOps = 0

\* No response, no result.
NoPoll == [kind |-> "none"]

PollIdle ==
    /\ pJobId = "" /\ pResponse = NoPoll /\ pPc = "off" /\ pResult = NoPoll
    /\ pNow = 0

Init == MainInit /\ DecIdle /\ ValIdle /\ RegIdle /\ PollIdle

\* ------------------------------------------------------------------------
\* handlePrompt and createSynthesisJob, one action per stretch of code between
\* two awaits
\* ------------------------------------------------------------------------

\* Date.now() moves on.
Tick ==
    /\ now < MaxClock
    /\ now' = now + 1
    /\ UNCHANGED <<jobs, subs, formErrors, posts, streamed, locked, decVars, valVars, regVars, pollVars>>

\* Mutation of CatchBlock: the error is shown and the registry left alone.
CatchBlockNoMark(s, name, msg) ==
    /\ jobs' = jobs
    /\ subs' = [subs EXCEPT ![s] =
                   [Returned("failed", IF msg # "" THEN msg ELSE "Request failed")
                       EXCEPT !.name = name]]


\* The catch block of handlePrompt for the error err (its name and its
\* message); the message it shows is kept as the error of the submission, with
\* the name of the error caught.
CatchBlock(s, name, msg) ==
    /\ jobs' = updateJobProgress(jobs, subs[s].tempId, FullProgress, "failed")
    /\ subs' = [subs EXCEPT ![s] =
                   [Returned("failed", IF msg # "" THEN msg ELSE "Request failed")
                       EXCEPT !.name = name]]

\* Mutation of HandlePrompt: the early return on validation errors is gone.
HandlePromptNoGuard(s, form) ==
    LET payload == buildPayload(form)
    IN /\ subs[s].pc = "idle"
       /\ \A r \in Subs : r < s => subs[r].pc # "idle"
       /\ formErrors' = validate(payload)
       /\ jobs' = upsertJob(jobs, toJobStatus(NoResult, TempId(now), payload.text, now))
       /\ posts' = posts + 1
       /\ subs' = [subs EXCEPT ![s].pc = "fetch",
                               ![s].tempId = TempId(now),
                               ![s].text = payload.text,
                               ![s].req = requestBody(payload)]
       /\ UNCHANGED <<now, streamed, locked, decVars, valVars, regVars, pollVars>>

\* Mutation of HandlePrompt: no placeholder is stored before the request.
HandlePromptNoPlaceholder(s, form) ==
    LET payload == buildPayload(form)
        errors == validate(payload)
    IN /\ subs[s].pc = "idle"
       /\ \A r \in Subs : r < s => subs[r].pc # "idle"
       /\ formErrors' = errors
       /\ IF errors # <<>>
          THEN /\ subs' = [subs EXCEPT ![s] = Returned("rejected", "")]
               /\ UNCHANGED <<jobs, posts, decVars, valVars, regVars, pollVars>>
          ELSE /\ posts' = posts + 1
               /\ subs' = [subs EXCEPT ![s].pc = "fetch",
                                       ![s].tempId = TempId(now),
                                       ![s].text = payload.text,
                                       ![s].req = requestBody(payload)]
               /\ UNCHANGED jobs
       /\ UNCHANGED <<now, streamed, locked, decVars, valVars, regVars, pollVars>>

\* handlePrompt up to its first await: buildPayload, validate, renderFormErrors,
\* and for a valid form the placeholder job and the POST of createSynthesisJob.
HandlePrompt(s, form) ==
    LET payload == buildPayload(form)
        errors == validate(payload)
    IN /\ subs[s].pc = "idle"
       /\ \A r \in Subs : r < s => subs[r].pc # "idle"
       /\ formErrors' = errors
       /\ IF errors # <<>>
          THEN /\ subs' = [subs EXCEPT ![s] = Returned("rejected", "")]
               /\ UNCHANGED <<jobs, posts, decVars, valVars, regVars, pollVars>>
          ELSE /\ jobs' = upsertJob(jobs, toJobStatus(NoResult, TempId(now), payload.text, now))
               /\ posts' = posts + 1
               /\ subs' = [subs EXCEPT ![s].pc = "fetch",
                                       ![s].tempId = TempId(now),
                                       ![s].text = payload.text,
                                       ![s].req = requestBody(payload)]
       /\ UNCHANGED <<now, streamed, locked, decVars, valVars, regVars, pollVars>>

\* Mutation of FetchRejects: the rejection is thrown on as an error made with
\* new Error(...).
FetchRejectsWrapped(s) ==
    /\ subs[s].pc = "fetch"
    /\ CatchBlock(s, HttpErrorName, "Failed to fetch")
    /\ UNCHANGED <<now, formErrors, posts, streamed, locked, decVars, valVars, regVars, pollVars>>

\* Mutation of FetchRejects: the request is sent again after a rejected fetch.
FetchRejectsRetries(s) ==
    /\ subs[s].pc = "fetch"
    /\ posts <= MaxSubs
    /\ posts' = posts + 1
    /\ UNCHANGED <<jobs, now, subs, formErrors, streamed, locked, decVars, valVars, regVars, pollVars>>

\* await fetch(...) rejects: no response was obtained.
FetchRejects(s) ==
    /\ subs[s].pc = "fetch"
    /\ CatchBlock(s, NetworkErrorName, "Failed to fetch")
    /\ UNCHANGED <<now, formErrors, posts, streamed, locked, decVars, valVars, regVars, pollVars>>

\* await fetch(...) resolves with an event stream: createSynthesisJob takes the
\* reader of the body.
ResponseStream(s, ok, stream) ==
    /\ subs[s].pc = "fetch"
    /\ stream \in Streams(ok, MaxEvents - streamed)
    /\ streamed' = streamed + Len(stream)
    /\ subs' = [subs EXCEPT ![s].pc = "stream", ![s].ok = ok,
                            ![s].stream = stream, ![s].rest = Wire(stream)]
    /\ locked' = locked \cup {s}
    /\ UNCHANGED <<jobs, now, formErrors, posts, decVars, valVars, regVars, pollVars>>

\* await fetch(...) resolves with another content type: createSynthesisJob
\* awaits response.json().
ResponseJson(s, ok, body) ==
    /\ subs[s].pc = "fetch"
    /\ body \in (IF ok THEN JsonBodies ELSE ErrorBodies)
    /\ subs' = [subs EXCEPT ![s].pc = "json", ![s].ok = ok, ![s].result = body]
    /\ UNCHANGED <<jobs, now, formErrors, posts, streamed, locked, decVars, valVars, regVars, pollVars>>

\* await reader.read() resolves with the next n bytes: one turn of the read
\* loop, the sink called for every message the chunk completes.
StreamRead(s, n) ==
    LET sub == subs[s]
        r == ReadChunk(sub.buffer, sub.pending, SubSeq(sub.rest, 1, n))
    IN /\ sub.pc = "stream"
       /\ n \in 1..Len(sub.rest)
       /\ jobs' = Deliver(jobs, r.payloads)
       /\ subs' = [subs EXCEPT ![s].rest = SubSeq(sub.rest, n + 1, Len(sub.rest)),
                               ![s].buffer = r.buffer,
                               ![s].pending = r.pending,
                               ![s].delivered = sub.delivered \o SinkArgs(r.payloads)]
       /\ UNCHANGED <<now, formErrors, posts, streamed, locked, decVars, valVars, regVars, pollVars>>

\* The rest of handlePrompt's try block for the job built from the result.
Reconcile(s, result) ==
    LET base == toJobStatus(result, subs[s].tempId, subs[s].text, now)
        job == [base EXCEPT !.progress =
                   IF result # NoResult /\ result.value.status = "completed"
                   THEN FullProgress ELSE @]
    IN /\ jobs' = upsertJob(jobs, job)
       /\ subs' = [subs EXCEPT ![s] = IF HasAudio(job.artifacts)
                                       THEN [@ EXCEPT !.pc = "audio", !.result = result]
                                       ELSE Returned("done", "")]

\* Mutation of StreamEnd: the loop is left although bytes are still to come.
StreamEndEarly(s) ==
    /\ subs[s].pc = "stream"
    /\ Reconcile(s, NoResult)
    /\ UNCHANGED <<now, formErrors, posts, streamed, locked, decVars, valVars, regVars, pollVars>>


\* await reader.read() resolves with done: createSynthesisJob returns null.
StreamEnd(s) ==
    /\ subs[s].pc = "stream"
    /\ subs[s].rest = <<>>
    /\ Reconcile(s, NoResult)
    /\ UNCHANGED <<now, formErrors, posts, streamed, locked, decVars, valVars, regVars, pollVars>>

\* await reader.read() rejects: the connection broke, or the fetch was aborted.
ReadRejects(s) ==
    /\ subs[s].pc = "stream"
    /\ CatchBlock(s, NetworkErrorName, "network error")
    /\ UNCHANGED <<now, formErrors, posts, streamed, locked, decVars, valVars, regVars, pollVars>>

\* await response.json() settles: createSynthesisJob throws for a non-success
\* status and returns the document otherwise.
JsonResolved(s) ==
    LET sub == subs[s]
    IN /\ sub.pc = "json"
       /\ IF ~sub.ok
          THEN CatchBlock(s, HttpErrorName,
                          IF "detail" \in DOMAIN sub.result.value
                             THEN sub.result.value.detail ELSE "Request failed")
          ELSE Reconcile(s, sub.result)
       /\ UNCHANGED <<now, formErrors, posts, streamed, locked, decVars, valVars, regVars, pollVars>>

\* Mutation of AudioSettles: a failed fetch of the audio marks the job failed.
AudioSettlesMarksFailed(s, fetched) ==
    /\ subs[s].pc = "audio"
    /\ subs' = [subs EXCEPT ![s] = Returned("done", IF fetched THEN ""
                                                    ELSE "Unable to fetch audio")]
    /\ jobs' = IF fetched THEN jobs
               ELSE updateJobProgress(jobs, subs[s].result.value.job_id,
                                      FullProgress, "failed")
    /\ UNCHANGED <<now, formErrors, posts, streamed, locked, decVars, valVars, regVars, pollVars>>

\* await fetchAudioBlob(audioPath) in handleAudioPlayback resolves, or rejects
\* and is caught there.
AudioSettles(s, fetched) ==
    /\ subs[s].pc = "audio"
    /\ subs' = [subs EXCEPT ![s] = Returned("done", IF fetched THEN ""
                                                    ELSE "Unable to fetch audio")]
    /\ UNCHANGED <<jobs, now, formErrors, posts, streamed, locked, decVars, valVars, regVars, pollVars>>

Next ==
    \/ Tick
    \/ \E s \in Subs, form \in Forms : HandlePrompt(s, form)
    \/ \E s \in Subs : FetchRejects(s)
    \/ \E s \in Subs, ok \in BOOLEAN, stream \in Streams(TRUE, MaxEvents) :
          ResponseStream(s, ok, stream)
    \/ \E s \in Subs, ok \in BOOLEAN, body \in JsonBodies \cup ErrorBodies :
          ResponseJson(s, ok, body)
    \/ \E s \in Subs : \E n \in {ChunkSize, Len(subs[s].rest)} : StreamRead(s, n)
    \/ \E s \in Subs : StreamEnd(s)
    \/ \E s \in Subs : ReadRejects(s)
    \/ \E s \in Subs : JsonResolved(s)
    \/ \E s \in Subs, fetched \in BOOLEAN : AudioSettles(s, fetched)

Spec == Init /\ [][Next]_vars

\* ------------------------------------------------------------------------
\* The decoder on its own: the read loop of createSynthesisJob with a sink
\* that records what it is called with
\* ------------------------------------------------------------------------

\* dCut records that some read ended inside a message or inside the blank line
\* that ends it, so that text was carried over to the next read.

\* The messages of the decoder's inputs, each without the blank line that
\* ends it: a data line; a data line with blanks around the payload, the payload
\* no JSON document; a data line after another field; a payload of one two-byte
\* character; a comment, which has no data line; a message with an empty line
\* before its data line.
MessageTexts ==
    << DataMarker \o <<"A">>,
       DataMarker \o <<" ", "x", " ">>,
       <<"i", "d", ":", "1", NL, " ">> \o DataMarker \o <<"B">>,
       DataMarker \o <<WideChar>>,
       <<":", "k">>,
       <<NL>> \o DataMarker \o <<"C">> >>

MessageKinds == 1..Len(MessageTexts)

\* The bytes of a sequence of messages, each ended by a blank line.
WireOf(msgs) ==
    Utf8Encode(Concat([i \in 1..Len(msgs) |-> MessageTexts[msgs[i]] \o BlankLine]))

DecInit ==
    /\ MainInit /\ ValIdle /\ RegIdle /\ PollIdle
    /\ dMsgs \in SeqsUpTo(MessageKinds, MaxMsgs)
    /\ dRest = WireOf(dMsgs)
    /\ dBuffer = <<>>
    /\ dPending = <<>>
    /\ dSink = <<>>
    /\ dPc = "reading"
    /\ dCut = FALSE

\* await reader.read() resolves with the next n bytes.
DecRead(n) ==
    LET r == ReadChunk(dBuffer, dPending, SubSeq(dRest, 1, n))
    IN /\ dPc = "reading"
       /\ n \in 1..Len(dRest)
       /\ dRest' = SubSeq(dRest, n + 1, Len(dRest))
       /\ dBuffer' = r.buffer
       /\ dPending' = r.pending
       /\ dSink' = dSink \o SinkArgs(r.payloads)
       /\ dCut' = (dCut \/ r.buffer # <<>> \/ r.pending # <<>>)
       /\ UNCHANGED <<dMsgs, dPc, mainVars, valVars, regVars, pollVars>>

\* Mutation of DecEnd: the loop reads on after done.
DecEndKeepsReading ==
    /\ dPc = "reading"
    /\ dRest = <<>>
    /\ UNCHANGED <<decVars, mainVars, valVars, regVars, pollVars>>


\* await reader.read() resolves with done: the loop breaks.
DecEnd ==
    /\ dPc = "reading"
    /\ dRest = <<>>
    /\ dPc' = "done"
    /\ UNCHANGED <<dMsgs, dRest, dBuffer, dPending, dSink, dCut, mainVars, valVars, regVars, pollVars>>

\* await reader.read() rejects (the signal given to fetch fired, or the
\* connection broke): createSynthesisJob throws out of the loop.
DecRejects ==
    /\ dPc = "reading"
    /\ dPc' = "thrown"
    /\ UNCHANGED <<dMsgs, dRest, dBuffer, dPending, dSink, dCut, mainVars, valVars, regVars, pollVars>>

DecNext ==
    \/ \E n \in 1..Len(dRest) : DecRead(n)
    \/ DecEnd
    \/ DecRejects

SpecDecoder == DecInit /\ [][DecNext]_vars

\* The calls parseSseChunk makes for a payload text to a sink that raises an
\* error on every decoded document and returns normally on a text: the call
\* onEvent(JSON.parse(payload)) raises inside the try, and the catch calls
\* onEvent(payload).
SinkCallsRaising(text) ==
    IF IsJson(text)
    THEN <<JSONparse(text), [kind |-> "string", value |-> text]>>
    ELSE <<[kind |-> "string", value |-> text]>>

\* await reader.read() resolves with the next n bytes, the sink being one that
\* raises on decoded documents.
DecReadRaising(n) ==
    LET r == ReadChunk(dBuffer, dPending, SubSeq(dRest, 1, n))
    IN /\ dPc = "reading"
       /\ n \in 1..Len(dRest)
       /\ dRest' = SubSeq(dRest, n + 1, Len(dRest))
       /\ dBuffer' = r.buffer
       /\ dPending' = r.pending
       /\ dSink' = dSink \o Concat([i \in 1..Len(r.payloads) |->
                                       SinkCallsRaising(r.payloads[i])])
       /\ dCut' = (dCut \/ r.buffer # <<>> \/ r.pending # <<>>)
       /\ UNCHANGED <<dMsgs, dPc, mainVars, valVars, regVars, pollVars>>

DecRaisingNext ==
    \/ \E n \in 1..Len(dRest) : DecReadRaising(n)
    \/ DecEnd
    \/ DecRejects

\* The decoder with a sink that raises on decoded documents.
SpecDecoderRaising == DecInit /\ [][DecRaisingNext]_vars


\* The text of a last message that no blank line ends: a data line, with or
\* without its line end.
Fragments == {DataMarker \o <<"D">>, DataMarker \o <<"D", NL>>}

\* The decoder on streams that end inside a message.
DecFragmentInit ==
    /\ MainInit /\ ValIdle /\ RegIdle /\ PollIdle
    /\ dMsgs \in SeqsUpTo(MessageKinds, MaxMsgs)
    /\ dRest \in {WireOf(dMsgs) \o Utf8Encode(f) : f \in Fragments}
    /\ dBuffer = <<>>
    /\ dPending = <<>>
    /\ dSink = <<>>
    /\ dPc = "reading"
    /\ dCut = FALSE

SpecDecoderFragment == DecFragmentInit /\ [][DecNext]_vars


\* A pending read resolves with some of the bytes still to come.
ReadResolves ==
    /\ dPc = "reading"
    /\ dRest # <<>>
    /\ \E n \in 1..Len(dRest) : dRest' = SubSeq(dRest, n + 1, Len(dRest))

\* The runs of the decoder in which a pending read is settled in the end: with
\* bytes while there are some to come, with done once there are none. (A read
\* may reject at any time, and need not.)
SpecDecoderLive ==
    /\ SpecDecoder
    /\ WF_dRest(ReadResolves)
    /\ WF_vars(DecEnd)

\* ------------------------------------------------------------------------
\* The validator on its own: buildPayload and validate on every form state
\* ------------------------------------------------------------------------

AllForms ==
    [textPrompt      : PromptInputs,
     videoResolution : DOMAIN ResolutionInputs,
     videoFps        : DOMAIN FpsInputs,
     textTemp        : DOMAIN TempInputs,
     waveformTemp    : DOMAIN TempInputs,
     dryRun          : {TRUE},
     renderVideo     : {FALSE}]

ValInit ==
    /\ MainInit /\ DecIdle /\ RegIdle /\ PollIdle
    /\ vForm \in AllForms
    /\ vErrors = <<>>
    /\ vPc = "ready"

\* const errors = validate(buildPayload())
Validate ==
    /\ vPc = "ready"
    /\ vErrors' = validate(buildPayload(vForm))
    /\ vPc' = "done"
    /\ UNCHANGED <<vForm, mainVars, decVars, regVars, pollVars>>

ValNext == Validate

SpecValidate == ValInit /\ [][ValNext]_vars

\* ------------------------------------------------------------------------
\* The registry on its own: upsertJob, updateJobProgress and renderJobs one
\* statement at a time, the JobState objects held by reference. A call runs
\* to its end before another begins: none of the three functions awaits.
\* ------------------------------------------------------------------------

MaxOps == 3

\* The ids updateJobProgress is called with, and the progress and the status
\* ("" for none) it is given: by the sink for an event, by the catch block.
UpdateIds == {TempId(0), "j1"}

UpdateProgresses == {40, FullProgress}

UpdateStatuses == {"", "running", "failed"}

KeysOf(map) == {map[i].key : i \in DOMAIN map}

\* jobs.get(key), for a key of the map.
RefOf(map, key) == map[CHOOSE i \in DOMAIN map : map[i].key = key].ref

\* jobs.set(key, ref): the entry of a key the map has keeps its place, one of
\* a new key comes last.
MapSet(map, key, ref) ==
    IF key \in KeysOf(map)
    THEN [i \in DOMAIN map |->
             IF map[i].key = key THEN [key |-> key, ref |-> ref] ELSE map[i]]
    ELSE Append(map, [key |-> key, ref |-> ref])

\* jobs.sort((a, b) => b.createdAt - a.createdAt) on an array of references:
\* by createdAt descending, equal ones in the order they had.
RECURSIVE SortedDesc(_, _)
SortedDesc(refs, heap) ==
    IF refs = <<>>
    THEN <<>>
    ELSE LET init == SortedDesc(SubSeq(refs, 1, Len(refs) - 1), heap)
             x == refs[Len(refs)]
             k == Cardinality({i \in DOMAIN init :
                                  heap[init[i]].createdAt >= heap[x].createdAt})
         IN SubSeq(init, 1, k) \o <<x>> \o SubSeq(init, k + 1, Len(init))

\* The fields of the objects an array of references holds.
Contents(refs, heap) == [i \in DOMAIN refs |-> heap[refs[i]]]

RegInit ==
    /\ MainInit /\ DecIdle /\ ValIdle /\ PollIdle
    /\ rHeap = <<>> /\ rMap = <<>> /\ rArray = <<>> /\ rShown = <<>>
    /\ rPc = "idle" /\ rCur = NoCall /\ rBefore = NoCall /\ rNow = 0 /\ rOps = 0

RegTick ==
    /\ rNow < MaxClock
    /\ rNow' = rNow + 1
    /\ UNCHANGED <<rHeap, rMap, rArray, rShown, rPc, rCur, rBefore, rOps>>
    /\ UNCHANGED <<mainVars, decVars, valVars, pollVars>>

\* upsertJob(toJobStatus(...)) of handlePrompt, for the placeholder or for the
\* result: toJobStatus makes a new object, which upsertJob is called with.
RegCreate(data) ==
    /\ rPc = "idle"
    /\ rOps < MaxOps
    /\ rOps' = rOps + 1
    /\ rHeap' = Append(rHeap, toJobStatus(data, TempId(rNow), <<"a">>, rNow))
    /\ rCur' = [op |-> "upsert", ref |-> Len(rHeap) + 1,
                progress |-> 0, status |-> ""]
    /\ rBefore' = NoCall
    /\ rPc' = "set"
    /\ UNCHANGED <<rMap, rArray, rShown, rNow>>
    /\ UNCHANGED <<mainVars, decVars, valVars, pollVars>>

\* updateJobProgress(id, progress, status): const current = jobs.get(id), and
\* the return when there is none.
RegGet(id, progress, status) ==
    /\ rPc = "idle"
    /\ rOps < MaxOps
    /\ rOps' = rOps + 1
    /\ IF id \in KeysOf(rMap)
       THEN /\ rCur' = [op |-> "update", ref |-> RefOf(rMap, id),
                        progress |-> progress, status |-> status]
            /\ rBefore' = rHeap[RefOf(rMap, id)]
            /\ rPc' = "progress"
       ELSE UNCHANGED <<rCur, rBefore, rPc>>
    /\ UNCHANGED <<rHeap, rMap, rArray, rShown, rNow>>
    /\ UNCHANGED <<mainVars, decVars, valVars, pollVars>>

\* Mutation of RegWriteProgress: the call is suspended after its first write.
RegWriteProgressYields ==
    /\ rPc = "progress"
    /\ rHeap' = [rHeap EXCEPT ![rCur.ref].progress =
                                  MinOf(rCur.progress, FullProgress)]
    /\ rPc' = "idle"
    /\ UNCHANGED <<rMap, rArray, rShown, rCur, rBefore, rNow, rOps>>
    /\ UNCHANGED <<mainVars, decVars, valVars, pollVars>>

\* current.progress = Math.min(progress, 100): a write to the object the map
\* holds.
RegWriteProgress ==
    /\ rPc = "progress"
    /\ rHeap' = [rHeap EXCEPT ![rCur.ref].progress =
                                  MinOf(rCur.progress, FullProgress)]
    /\ rPc' = "status"
    /\ UNCHANGED <<rMap, rArray, rShown, rCur, rBefore, rNow, rOps>>
    /\ UNCHANGED <<mainVars, decVars, valVars, pollVars>>

\* if (status) current.status = status, and the call upsertJob(current).
RegWriteStatus ==
    /\ rPc = "status"
    /\ rHeap' = [rHeap EXCEPT ![rCur.ref].status =
                                  IF rCur.status # "" THEN rCur.status ELSE @]
    /\ rPc' = "set"
    /\ UNCHANGED <<rMap, rArray, rShown, rCur, rBefore, rNow, rOps>>
    /\ UNCHANGED <<mainVars, decVars, valVars, pollVars>>

\* jobs.set(job.id, job) of upsertJob.
RegSet ==
    /\ rPc = "set"
    /\ rMap' = MapSet(rMap, rHeap[rCur.ref].id, rCur.ref)
    /\ rPc' = "render"
    /\ UNCHANGED <<rHeap, rArray, rShown, rCur, rBefore, rNow, rOps>>
    /\ UNCHANGED <<mainVars, decVars, valVars, pollVars>>

\* renderJobs(Array.from(jobs.values())) of upsertJob: a new array of the
\* objects of the map, sorted in place, and a card written for each from its
\* fields; the page has the jobList element.
RegRender ==
    LET array == SortedDesc([i \in DOMAIN rMap |-> rMap[i].ref], rHeap)
    IN /\ rPc = "render"
       /\ rArray' = array
       /\ rShown' = Contents(array, rHeap)
       /\ rPc' = "idle"
       /\ UNCHANGED <<rHeap, rMap, rCur, rBefore, rNow, rOps>>
       /\ UNCHANGED <<mainVars, decVars, valVars, pollVars>>

RegNext ==
    \/ RegTick
    \/ \E data \in {NoResult} \cup JsonBodies : RegCreate(data)
    \/ \E id \in UpdateIds, progress \in UpdateProgresses,
          status \in UpdateStatuses : RegGet(id, progress, status)
    \/ RegWriteProgress
    \/ RegWriteStatus
    \/ RegSet
    \/ RegRender

SpecRegistry == RegInit /\ [][RegNext]_vars

\* ------------------------------------------------------------------------
\* pollJob on its own: fetchJson for the job and the JobState made of it
\* ------------------------------------------------------------------------

\* The progress pollJob gives a job that is not completed.
PollProgress == 50

\* The plans of the job documents: an audio dry run, a video render.
Plans == {[render_video |-> FALSE, dry_run |-> TRUE],
          [render_video |-> TRUE, dry_run |-> FALSE]}

\* The job documents the service answers with.
PollDocs ==
    [job_id : ServerIds, status : Statuses, plan : Plans,
     artifacts : {NoArtifacts, AudioArtifacts}]

\* What response.json() finds in a body: a job document, null, an error
\* envelope or {}, or a text that is no JSON ("invalid": json() rejects).
PollBodies(ok) ==
    IF ok
    THEN {[kind |-> "object", value |-> d] : d \in PollDocs}
         \cup {[kind |-> "null"], [kind |-> "invalid"]}
    ELSE ErrorBodies \cup {[kind |-> "invalid"]}

\* How the promise of fetchJson settles: rejected because fetch rejected (no
\* response), rejected with new Error(detail || statusText) for a non-success
\* status, rejected by response.json() for a body that is no JSON, or resolved
\* with the parsed body.
fetchJson(response) ==
    IF response = NoPoll
    THEN [kind |-> "rejected", message |-> "Failed to fetch"]
    ELSE IF ~response.ok
    THEN [kind |-> "rejected",
          message |-> IF response.body.kind = "object"
                         /\ "detail" \in DOMAIN response.body.value
                      THEN response.body.value.detail ELSE "statusText"]
    ELSE IF response.body.kind = "invalid"
    THEN [kind |-> "rejected", message |-> "SyntaxError"]
    ELSE [kind |-> "resolved", data |-> response.body]

\* The JobState pollJob makes of a job document at clock reading t.
PolledState(data, t) ==
    [id        |-> data.job_id,
     status    |-> data.status,
     plan      |-> data.plan,
     artifacts |-> data.artifacts,
     progress  |-> IF data.status = "completed" THEN FullProgress ELSE PollProgress,
     createdAt |-> t,
     updatedAt |-> t,
     prompt    |-> <<>>]

\* Mutation of pollJob: the try and its catch are gone.
pollJobNoCatch(settled, t) ==
    IF settled.kind = "rejected" \/ settled.data.kind = "null"
    THEN [kind |-> "raised"]
    ELSE [kind |-> "object", value |-> PolledState(settled.data.value, t)]

\* pollJob once fetchJson has settled: a rejection is caught and gives null;
\* so does the TypeError of data.job_id for a null body, raised inside the try.
pollJob(settled, t) ==
    IF settled.kind = "rejected" \/ settled.data.kind = "null"
    THEN [kind |-> "null"]
    ELSE [kind |-> "object", value |-> PolledState(settled.data.value, t)]

PollInit ==
    /\ MainInit /\ DecIdle /\ ValIdle /\ RegIdle
    /\ pJobId \in ServerIds
    /\ pResponse = NoPoll
    /\ pPc = "fetch"
    /\ pResult = NoPoll
    /\ pNow = 0

PollTick ==
    /\ pNow < MaxClock
    /\ pNow' = pNow + 1
    /\ UNCHANGED <<pJobId, pResponse, pPc, pResult>>
    /\ UNCHANGED <<mainVars, decVars, valVars, regVars>>

\* await fetch(url) rejects: fetchJson rejects and pollJob returns from its
\* catch.
PollFetchRejects ==
    /\ pPc = "fetch"
    /\ pResult' = pollJob(fetchJson(NoPoll), pNow)
    /\ pPc' = "returned"
    /\ UNCHANGED <<pJobId, pResponse, pNow>>
    /\ UNCHANGED <<mainVars, decVars, valVars, regVars>>

\* await fetch(url) resolves with a response: fetchJson goes on to
\* response.json().
PollResponse(ok, body) ==
    /\ pPc = "fetch"
    /\ body \in PollBodies(ok)
    /\ pResponse' = [ok |-> ok, body |-> body]
    /\ pPc' = "json"
    /\ UNCHANGED <<pJobId, pResult, pNow>>
    /\ UNCHANGED <<mainVars, decVars, valVars, regVars>>

\* response.json() settles, fetchJson with it, and pollJob returns.
PollJsonSettles ==
    /\ pPc = "json"
    /\ pResult' = pollJob(fetchJson(pResponse), pNow)
    /\ pPc' = "returned"
    /\ UNCHANGED <<pJobId, pResponse, pNow>>
    /\ UNCHANGED <<mainVars, decVars, valVars, regVars>>

PollNext ==
    \/ PollTick
    \/ PollFetchRejects
    \/ \E ok \in BOOLEAN, body \in PollBodies(TRUE) \cup PollBodies(FALSE) :
          PollResponse(ok, body)
    \/ PollJsonSettles

SpecPoll == PollInit /\ [][PollNext]_vars

\* ------------------------------------------------------------------------
\* Properties
\* ------------------------------------------------------------------------

Range(f) == {f[x] : x \in DOMAIN f}

\* A read of the stream of s: the events of the messages it completes are
\* merged into the registry.
ReadStep(s) ==
    /\ subs[s].pc = "stream" /\ subs'[s].pc = "stream"
    /\ Len(subs'[s].rest) < Len(subs[s].rest)

\* C1: once a job record is completed or failed, no event merged later changes
\* its status or its artifacts, whatever status the event carries.
C1_TerminalKeptByEvents ==
    [][(\E s \in Subs : ReadStep(s)) =>
         \A id \in DOMAIN jobs :
            jobs[id].status \in Terminal =>
               /\ id \in DOMAIN jobs'
               /\ jobs'[id].status = jobs[id].status
               /\ jobs'[id].artifacts = jobs[id].artifacts]_vars

\* The invocation s merges a buffered response with a success status.
ResponseMerged(s) ==
    subs[s].pc = "json" /\ subs[s].ok /\ subs'[s].pc \in {"audio", "done"}

\* C2: when the response with the server-issued job id is merged, the
\* placeholder is rekeyed: the registry holds the record under the server id and
\* none under the temporary id.
C2_PlaceholderRekeyed ==
    [][\A s \in Subs :
          ResponseMerged(s) =>
             /\ subs[s].result.value.job_id \in DOMAIN jobs'
             /\ subs[s].tempId \notin DOMAIN jobs']_vars

\* C3: the stored progress of a job never decreases when the events of a stream
\* are merged.
C3_ProgressMonotone ==
    [][(\E s \in Subs : ReadStep(s)) =>
         \A id \in DOMAIN jobs :
            id \in DOMAIN jobs' /\ jobs'[id].progress >= jobs[id].progress]_vars

\* C4: a job record has artifacts only if its status is completed.
C4_ArtifactsOnlyWhenCompleted ==
    \A id \in DOMAIN jobs :
        jobs[id].artifacts # NoArtifacts => jobs[id].status = "completed"

\* The stream is a progress event for the job id followed by a completed event
\* for it that carries artifacts.
ProgressThenCompleted(stream, id) ==
    /\ Len(stream) = 2
    /\ LET p == EventTable[stream[1]]
           c == EventTable[stream[2]]
       IN /\ p.job_id = id /\ "progress" \in DOMAIN p /\ "status" \notin DOMAIN p
          /\ c.job_id = id /\ "status" \in DOMAIN c /\ c.status = "completed"
          /\ "artifacts" \in DOMAIN c

\* C5: when a stream that delivered a progress event and then a completed event
\* with artifacts for a job ends, the record of that job is completed, at
\* progress 100, with the artifacts delivered.
C5_StreamedJobCompleted ==
    [][\A s \in Subs, id \in ServerIds :
          (/\ subs[s].pc = "stream" /\ subs[s].rest = <<>>
           /\ subs'[s].pc \in {"audio", "done"}
           /\ ProgressThenCompleted(subs[s].stream, id)) =>
             /\ id \in DOMAIN jobs'
             /\ jobs'[id].status = "completed"
             /\ jobs'[id].progress = FullProgress
             /\ jobs'[id].artifacts = EventTable[subs[s].stream[2]].artifacts]_vars

\* What the sink receives when the whole input arrives in one chunk.
OneChunk(msgs) == SinkArgs(ReadChunk(<<>>, <<>>, WireOf(msgs)).payloads)

\* C6: however the bytes of a sequence of well-formed messages are cut into
\* chunks, the sink receives the payloads it receives when they arrive in one
\* chunk, in the same order.
C6_ChunkInvariance == dPc = "done" => dSink = OneChunk(dMsgs)

\* C6 witness: a stream of two messages with a data line has ended, and some
\* read ended inside a message or its blank line.
C6_Witness == dPc = "done" /\ dCut /\ Len(dSink) = 2

\* The bytes of one message of a stream of handlePrompt.
MessageBytes == Len(Wire(<<"A">>))

\* The messages of the stream of s whose blank line has been read.
Completed(sub) == (Len(Wire(sub.stream)) - Len(sub.rest)) \div MessageBytes

\* The events of the stream of s from message i to message k, as the sink
\* receives them.
Events(sub, i, k) == [j \in 1..(k - i + 1) |-> JSONparse(<<sub.stream[i + j - 1]>>)]

\* The sink of handlePrompt, called with the events in order.
RECURSIVE ApplyInOrder(_, _)
ApplyInOrder(m, events) ==
    IF events = <<>> THEN m ELSE ApplyInOrder(onEvent(m, Head(events)), Tail(events))

\* C7: the sink has received exactly the events of the messages read so far, in
\* the order of the stream, and a read applies the events of the messages it
\* completes to the registry in that order.
C7_EventsInArrivalOrder ==
    /\ [](\A s \in Subs :
             subs[s].pc = "stream" =>
                subs[s].delivered = Events(subs[s], 1, Completed(subs[s])))
    /\ [][\A s \in Subs :
             ReadStep(s) =>
                jobs' = ApplyInOrder(jobs, Events(subs[s], Completed(subs[s]) + 1,
                                                  Completed(subs'[s])))]_vars

\* C7 witness: one read completed two messages for a job in the registry, and
\* the second left its mark on the record after the first.
C7_Witness ==
    \E s \in Subs :
        /\ subs[s].pc = "stream"
        /\ subs[s].stream = <<"C", "A">>
        /\ Len(subs[s].delivered) = 2
        /\ "j1" \in DOMAIN jobs
        /\ jobs["j1"].status = "running" /\ jobs["j1"].progress = 40

\* C8: a read that rejects because the fetch was aborted ends the stream
\* without touching the registry: the job is not moved to failed.
C8_AbortLeavesJobUntouched ==
    [][\A s \in Subs :
          (subs[s].pc = "stream" /\ subs'[s].pc = "failed") => jobs' = jobs]_vars

\* C9: a form with validation errors is not submitted: the errors are rendered,
\* no request is posted and the registry is left as it is; an empty prompt is
\* reported as such.
C9_InvalidFormBlocked ==
    [][\A s \in Subs, form \in Forms :
          HandlePrompt(s, form) =>
             LET errors == validate(buildPayload(form))
             IN /\ formErrors' = errors
                /\ errors # <<>> =>
                      jobs' = jobs /\ posts' = posts /\ subs'[s].pc = "rejected"
                /\ Trim(form.textPrompt) = <<>> =>
                      errors # <<>> /\ errors[1] = ErrPrompt]_vars

\* C9 witness: an invocation ended on the empty-prompt error, with no request
\* posted and no job in the registry.
C9_Witness ==
    \E s \in Subs :
        /\ subs[s].pc = "rejected"
        /\ formErrors = <<ErrPrompt>>
        /\ posts = 0
        /\ DOMAIN jobs = {}

\* A temperature within [0.0, 1.5].
InRange(x) == ~x.nan /\ 0 <= x.v /\ x.v <= MaxTemp

\* C10: a request with both temperatures within [0.0, 1.5], an fps above zero
\* and a prompt that is not empty after trimming has no validation error.
C10_ValidRequestHasNoErrors ==
    vPc = "done" =>
       LET p == buildPayload(vForm)
       IN (/\ InRange(p.textTemp) /\ InRange(p.waveformTemp)
           /\ ~p.fps.nan /\ p.fps.v > 0
           /\ p.text # <<>>) => vErrors = <<>>

\* C10 witness: a request at the upper limit of the text temperature was
\* validated and has no error.
C10_Witness ==
    /\ vPc = "done"
    /\ buildPayload(vForm).textTemp = Num(MaxTemp)
    /\ InRange(buildPayload(vForm).waveformTemp)
    /\ buildPayload(vForm).fps = Num(24)
    /\ buildPayload(vForm).text = <<"b">>
    /\ vErrors = <<>>

\* A number outside [0.0, 1.5].
OutOfRange(x) == ~x.nan /\ (x.v < 0 \/ x.v > MaxTemp)

\* C11: a request whose text temperature or waveform temperature is a number
\* outside [0.0, 1.5] gets the error of that field, whatever its other fields
\* are; so does a temperature input that reads as such a number.
C11_OutOfRangeTempReported ==
    vPc = "done" =>
       LET p == buildPayload(vForm)
       IN /\ OutOfRange(p.textTemp) => ErrTextTemp \in Range(vErrors)
          /\ OutOfRange(p.waveformTemp) => ErrWaveformTemp \in Range(vErrors)
          /\ OutOfRange(TempInputs[vForm.textTemp]) => ErrTextTemp \in Range(vErrors)
          /\ OutOfRange(TempInputs[vForm.waveformTemp]) =>
                ErrWaveformTemp \in Range(vErrors)

\* C11 witness: a request with an empty prompt, a text temperature above the
\* limit and a waveform temperature below zero was validated: both temperature
\* errors are among its three errors.
C11_Witness ==
    /\ vPc = "done"
    /\ vForm.textTemp = "p16" /\ vForm.waveformTemp = "minus01"
    /\ vForm.textPrompt = <<" ">>
    /\ vErrors = <<ErrPrompt, ErrTextTemp, ErrWaveformTemp>>

\* A resolution of two positive numbers.
GoodResolution(r) == Len(r) = 2 /\ \A i \in 1..Len(r) : ~r[i].nan /\ r[i].v > 0

\* C12: a request whose resolution is not two positive integers, or whose fps
\* is not a number above zero, has a validation error.
C12_BadVideoRejected ==
    vPc = "done" =>
       LET p == buildPayload(vForm)
       IN (~GoodResolution(p.resolution) \/ ~Gt(p.fps, Num(0))) => vErrors # <<>>

\* The events a read of the stream of s delivers in this step.
EventsOfRead(s) == Events(subs[s], Completed(subs[s]) + 1, Completed(subs'[s]))

\* C13: an event for a job id without a record creates the record: after the
\* read that delivers it the registry has a record under its id.
C13_UnknownIdCreatesRecord ==
    [][\A s \in Subs :
          ReadStep(s) =>
             \A i \in 1..Len(EventsOfRead(s)) :
                LET event == EventsOfRead(s)[i].value
                IN "job_id" \in DOMAIN event => event.job_id \in DOMAIN jobs']_vars

\* C14: when the buffered response with a success status is merged, the
\* registry holds a record under the job_id of the response with the status and
\* the artifacts of the response; for a response of status planned with no
\* artifacts, a planned record with no artifacts.
C14_ResponseStored ==
    [][\A s \in Subs :
          ResponseMerged(s) =>
             LET r == subs[s].result.value
             IN /\ r.job_id \in DOMAIN jobs'
                /\ jobs'[r.job_id].id = r.job_id
                /\ jobs'[r.job_id].status = r.status
                /\ jobs'[r.job_id].artifacts = r.artifacts
                /\ jobs'[r.job_id].prompt = subs[s].text]_vars

\* C14 witness: a dry-run submission was answered planned without artifacts and
\* has returned; the registry holds j1 planned, without artifacts, at the
\* progress of a job that is not completed.
C14_Witness ==
    /\ \E s \in Subs : subs[s].pc = "done"
    /\ \A s \in Subs : subs[s].pc \in {"idle", "done"}
    /\ posts = 1
    /\ "j1" \in DOMAIN jobs
    /\ jobs["j1"].status = "planned"
    /\ jobs["j1"].artifacts = NoArtifacts
    /\ jobs["j1"].progress = InitialProgress
    /\ jobs["j1"].prompt = <<"a">>

\* createSynthesisJob settles for the invocation s, whose response has a
\* non-success status.
NonOkSettles(s) ==
    /\ subs[s].pc \in {"stream", "json"}
    /\ ~subs[s].ok
    /\ subs'[s].pc \notin {"stream", "json"}

\* C15: a response with a non-success status makes the submission fail with an
\* error message; createSynthesisJob returns no value for it.
C15_NonOkFails ==
    [][\A s \in Subs :
          NonOkSettles(s) => subs'[s].pc = "failed" /\ subs'[s].error # ""]_vars

AudioFetchFails(s) ==
    /\ subs[s].pc = "audio"
    /\ subs'[s].pc = "done"
    /\ subs'[s].error = "Unable to fetch audio"

\* C17: a failed fetch of an artifact is reported and leaves every job record
\* as it was.
C17_ArtifactFailureKeepsJobs ==
    [][\A s \in Subs : AudioFetchFails(s) => jobs' = jobs]_vars

\* C17 witness: the fetch of the audio of the completed job j1 failed and was
\* reported; j1 is still completed at full progress with its artifact.
C17_Witness ==
    \E s \in Subs :
        /\ subs[s].pc = "done"
        /\ subs[s].error = "Unable to fetch audio"
        /\ "j1" \in DOMAIN jobs
        /\ jobs["j1"].status = "completed"
        /\ jobs["j1"].progress = FullProgress
        /\ jobs["j1"].artifacts = AudioArtifacts

\* handlePrompt of the invocation s issues the fetch of the audio artifact.
AudioFetchIssued(s) == subs[s].pc # "audio" /\ subs'[s].pc = "audio"

\* C18: the fetch of an artifact is issued only for a job whose stored status
\* is completed.
C18_FetchOnlyWhenCompleted ==
    [][\A s \in Subs :
          AudioFetchIssued(s) =>
             jobs'[subs'[s].result.value.job_id].status = "completed"]_vars

\* The job ids carried by what the invocation s merges in this step: the
\* temporary id of the placeholder, the ids of the events of a read, the job_id
\* of a buffered response, the temporary id again when createSynthesisJob
\* returns null or throws.
CarriedIds(s) ==
    IF subs[s].pc = "idle" /\ subs'[s].pc = "fetch" THEN {subs'[s].tempId}
    ELSE IF ReadStep(s)
    THEN {EventsOfRead(s)[i].value.job_id : i \in 1..Len(EventsOfRead(s))}
    ELSE IF ResponseMerged(s) THEN {subs[s].result.value.job_id}
    ELSE IF subs[s].pc \in {"fetch", "stream", "json"}
            /\ subs'[s].pc \in {"done", "audio", "failed"}
    THEN {subs[s].tempId}
    ELSE {}

\* The record of id changes, appears or disappears in this step.
RecordChanges(id) ==
    \/ id \notin DOMAIN jobs
    \/ id \notin DOMAIN jobs'
    \/ jobs'[id] # jobs[id]

\* C19: merges are independent per id.  A step changes only records under the
\* ids carried by what it merges, and what a read makes of a record is what its
\* events make of that record alone, whatever else the registry holds; so the
\* record of one job is the same for every interleaving with the events and
\* responses of another.
C19_MergesIndependentPerId ==
    [][/\ \A id \in DOMAIN jobs \cup DOMAIN jobs' :
             RecordChanges(id) => \E s \in Subs : id \in CarriedIds(s)
       /\ \A s \in Subs :
             ReadStep(s) =>
                \A id \in DOMAIN jobs :
                   /\ id \in DOMAIN jobs'
                   /\ jobs'[id] =
                         ApplyInOrder([x \in {id} |-> jobs[id]], EventsOfRead(s))[id]]_vars

\* C19 witness: two submissions with placeholders of their own; the stream of
\* one delivered an event for j2, the job of the other's response: the record
\* of j2 took it, both placeholders are as they were created.
C19_Witness ==
    \E s \in Subs :
        /\ subs[s].pc = "stream"
        /\ subs[s].stream = <<"D">> /\ Len(subs[s].delivered) = 1
        /\ DOMAIN jobs = {"job-0", "job-1", "j2"}
        /\ jobs["j2"].status = "queued" /\ jobs["j2"].progress = -5
        /\ \A id \in {"job-0", "job-1"} :
              jobs[id].status = "queued" /\ jobs[id].progress = InitialProgress

\* What the sink is to receive for each message of MessageTexts: the document
\* of a payload that is JSON, the raw text of one that is not, nothing for a
\* message without a data line.
ExpectedOfKind ==
    << <<[kind |-> "object", value |-> EventTable.A]>>,
       <<[kind |-> "string", value |-> <<"x">>]>>,
       <<[kind |-> "object", value |-> EventTable.B]>>,
       <<[kind |-> "string", value |-> <<WideChar>>]>>,
       <<>>,
       <<[kind |-> "object", value |-> EventTable.C]>> >>

\* What the sink is to receive for a sequence of messages.
Expected(msgs) == Concat([i \in 1..Len(msgs) |-> ExpectedOfKind[msgs[i]]])

\* A message kind whose payload is no JSON document.
Undecodable(k) == ExpectedOfKind[k] # <<>> /\ ExpectedOfKind[k][1].kind = "string"

\* C20: a payload that cannot be decoded reaches the sink as its raw text and
\* the stream goes on: when the stream has ended the sink has received, in
\* order, the raw text of every such message and the document of every other
\* one, those after an undecodable message included.
C20_RawTextPassedOn == dPc = "done" => dSink = Expected(dMsgs)

\* C20 witness: a stream of an undecodable message followed by a decodable one
\* has ended, cut into more than one read; the sink received the raw text and
\* then the document.
C20_Witness ==
    /\ dPc = "done"
    /\ dCut
    /\ Len(dMsgs) = 2 /\ Undecodable(dMsgs[1]) /\ dMsgs[2] = 1
    /\ dSink = <<[kind |-> "string", value |-> <<"x">>],
                 [kind |-> "object", value |-> EventTable.A]>>

\* The invocations of handlePrompt that passed validation.
Submitted == {s \in Subs : subs[s].pc \notin {"idle", "rejected"}}

\* C21: the POST requests issued are one per submission, whatever became of
\* the submissions: none is sent again after a rejected fetch, a non-success
\* status or a failed read.
C21_OnePostPerSubmission == posts = Cardinality(Submitted)

\* C21 witness: every submission has failed, one on a read of its stream and
\* one on a non-success status without detail, and there are as many requests
\* as submissions.
C21_Witness ==
    /\ \A s \in Subs : subs[s].pc = "failed"
    /\ \E s \in Subs : subs[s].error = "network error"
    /\ \E s \in Subs : subs[s].error = "Request failed"
    /\ posts = MaxSubs

\* C22: every record with a terminal status has progress 100.
C22_TerminalAtFullProgress ==
    \A id \in DOMAIN jobs :
        jobs[id].status \in Terminal => jobs[id].progress = FullProgress

\* The forward edges of the state machine of a job.
ForwardEdges ==
    {<<"queued", "running">>}
    \cup ({"queued", "running", "planned"} \X Terminal)

\* C23: a change of the stored status of a job made by the events of a stream
\* follows a forward edge of the state machine.
C23_StatusMovesForward ==
    [][(\E s \in Subs : ReadStep(s)) =>
          \A id \in DOMAIN jobs \cap DOMAIN jobs' :
             jobs'[id].status # jobs[id].status =>
                <<jobs[id].status, jobs'[id].status>> \in ForwardEdges]_vars

\* C24: the record stored under the server id when the response is merged has
\* the createdAt and the prompt of the placeholder of the submission.
C24_RekeyKeepsCreatedAt ==
    [][\A s \in Subs :
          ResponseMerged(s) =>
             LET old == jobs[subs[s].tempId]
                 new == jobs'[subs[s].result.value.job_id]
             IN new.createdAt = old.createdAt /\ new.prompt = old.prompt]_vars

\* The invocation s passes validation and submits.
Submits(s) == subs[s].pc = "idle" /\ subs'[s].pc = "fetch"

\* C27: a submission that passes validation stores, in the step that posts the
\* request and so before any response or event, a record under a temporary id
\* made from the clock, with status queued, no artifacts and its prompt.
C27_PlaceholderAtSubmission ==
    [][\A s \in Subs :
          Submits(s) =>
             /\ subs'[s].tempId = TempId(now)
             /\ TempId(now) \notin ServerIds
             /\ TempId(now) \in DOMAIN jobs'
             /\ jobs'[TempId(now)].status = "queued"
             /\ jobs'[TempId(now)].artifacts = NoArtifacts
             /\ jobs'[TempId(now)].prompt = subs'[s].text
             /\ jobs'[TempId(now)].createdAt = now]_vars

\* C27 witness: a submission made at clock reading 1 waits for its response and
\* its placeholder is the only record, queued.
C27_Witness ==
    \E s \in Subs :
        /\ subs[s].pc = "fetch"
        /\ subs[s].tempId = "job-1"
        /\ DOMAIN jobs = {"job-1"}
        /\ jobs["job-1"].status = "queued"
        /\ jobs["job-1"].progress = InitialProgress

\* C28: the progress of every record is an integer from 0 to 100.
C28_ProgressInRange ==
    \A id \in DOMAIN jobs : jobs[id].progress \in 0..FullProgress

\* The request contract on the body of a POST.
BodyInContract(req) ==
    /\ req.prompt # <<>>
    /\ InRange(req.text_temp)
    /\ InRange(req.waveform_temp)
    /\ ~req.video.fps.nan /\ req.video.fps.v > 0

\* C30: the body of every POST issued satisfies the request contract.
C30_PostedBodyInContract ==
    \A s \in Subs : subs[s].pc = "fetch" => BodyInContract(subs[s].req)

\* The reading of the stream of the invocation s stops: the read loop is left
\* on done, or a read rejects (the connection broke or the fetch was aborted).
StreamStops(s) == subs[s].pc = "stream" /\ subs'[s].pc # "stream"

\* C26: when the reading of a stream stops, on completion, on cancellation or
\* on a failed read, the reader of the response body has been released.
C26_ReaderReleased ==
    [][\A s \in Subs : StreamStops(s) => s \notin locked']_vars

\* renderJobs returns: the array it was given has been sorted and shown.
Renders == rPc = "render" /\ rPc' = "idle"

\* The values of the createdAt field along a sequence of records never rise.
Descending(recs) ==
    \A i, j \in DOMAIN recs : i < j => recs[i].createdAt >= recs[j].createdAt

\* C25: the list of the registry made for renderJobs holds all current records
\* ordered by createdAt descending, and is a snapshot: no later step of a merge
\* changes what a list made earlier holds.
C25_ListIsSortedSnapshot ==
    [][/\ Renders =>
             /\ {rArray'[i] : i \in DOMAIN rArray'} =
                    {rMap[i].ref : i \in DOMAIN rMap}
             /\ Len(rArray') = Len(rMap)
             /\ Descending(Contents(rArray', rHeap))
       /\ ~Renders => Contents(rArray, rHeap') = Contents(rArray, rHeap)]_vars

\* The fields of a record after updateJobProgress has merged a call into it.
Merged(rec, call) ==
    [rec EXCEPT !.progress = MinOf(call.progress, FullProgress),
                !.status = IF call.status # "" THEN call.status ELSE @]

\* The registry can be read: no call runs, so that a sink or a catch block may
\* begin one, or renderJobs is about to read the records for the listing.
ReadPoint == rPc \in {"idle", "render"}

\* C29: a merge is one atomic step: wherever the registry can be read, the
\* record of the last merge has all of its field updates, never a part.
C29_MergeIsAtomic ==
    (ReadPoint /\ rCur.op = "update") =>
        rHeap[rCur.ref] = Merged(rBefore, rCur)

\* C29 witness: a merge that changed both the progress and the status of a
\* record is over, with another record in the registry.
C29_Witness ==
    /\ rPc = "idle"
    /\ rCur.op = "update"
    /\ Len(rMap) >= 2
    /\ rHeap[rCur.ref].progress # rBefore.progress
    /\ rHeap[rCur.ref].status # rBefore.status

\* createSynthesisJob returns to handlePrompt from the streaming path.
StreamReturns(s) == subs[s].pc = "stream" /\ subs'[s].pc \in {"audio", "done"}

\* C31: a response that declares an event stream is read as a stream, and the
\* call returns null only when the stream is exhausted and the sink has had
\* every event of it; any other response is parsed as one JSON document, which
\* is returned.
C31_PathByContentType ==
    [][\A s \in Subs :
          /\ (subs[s].pc = "fetch" /\ subs'[s].pc \in {"stream", "json"}) =>
                (subs'[s].pc = "stream" <=> s \in locked')
          /\ StreamReturns(s) =>
                /\ s \in locked
                /\ subs[s].rest = <<>>
                /\ subs[s].delivered = Events(subs[s], 1, Len(subs[s].stream))
                /\ jobs' = upsertJob(jobs, toJobStatus(NoResult, subs[s].tempId,
                                                       subs[s].text, now))
          /\ ResponseMerged(s) =>
                /\ s \notin locked
                /\ subs[s].result \in JsonBodies
                /\ jobs' = upsertJob(jobs, toJobStatus(subs[s].result, subs[s].tempId,
                                                       subs[s].text, now))]_vars

\* C31 witness: one submission has returned from a stream whose event was
\* applied on the way, another from a buffered response whose document is
\* stored.
C31_Witness ==
    \E s, r \in Subs :
        /\ s \in locked /\ subs[s].pc = "done"
        /\ r \notin locked /\ subs[r].pc = "done"
        /\ "j1" \in DOMAIN jobs
        /\ jobs["j1"].status = "running" /\ jobs["j1"].progress = FullProgress

\* C32: the read loop stops once the stream has signalled completion or a read
\* has failed, createSynthesisJob returning or throwing, and nothing is read
\* or handed to the sink after that.
C32_ReadLoopTerminates ==
    /\ (dPc = "reading") ~> (dPc \in {"done", "thrown"})
    /\ [][(dPc \in {"done", "thrown"}) =>
          (dPc' = dPc /\ dRest' = dRest /\ dSink' = dSink)]_vars

\* C32 witness: the loop was left on done after a stream of as many messages
\* as the bound allows, read in more than one read, all bytes consumed.
C32_Witness ==
    /\ dPc = "done"
    /\ Len(dMsgs) = MaxMsgs
    /\ dRest = <<>>
    /\ dCut

C34_OnlyTerminatedEmitted ==
    /\ \A i \in DOMAIN dSink : dSink[i] # SinkArg(<<"D">>)
    /\ (dRest = <<>> /\ dPc \in {"reading", "done"}) =>
          /\ dSink = Expected(dMsgs)
          /\ dBuffer \in Fragments

\* C34 witness: a stream of two messages and an unended third has ended, read
\* in more than one read: two calls of the sink, the third message in the
\* buffer.
C34_Witness ==
    /\ dPc = "done"
    /\ dCut
    /\ Len(dMsgs) = 2 /\ Len(dSink) = 2
    /\ dBuffer = DataMarker \o <<"D">>

\* The submission s fails with an error: its fetch rejects, a read of its
\* stream rejects, or its buffered response has a non-success status.
FailsWithError(s) ==
    subs[s].pc \in {"fetch", "stream", "json"} /\ subs'[s].pc = "failed"

\* C35: when a submission fails with an error its placeholder becomes failed
\* at progress 100, no record is added to the registry, and every other record
\* is left as it was; the reads of a stream before the failure add none either.
C35_FailureMarksPlaceholder ==
    [][/\ \A s \in Subs :
             FailsWithError(s) =>
                /\ DOMAIN jobs' = DOMAIN jobs
                /\ subs[s].tempId \in DOMAIN jobs'
                /\ jobs'[subs[s].tempId].status = "failed"
                /\ jobs'[subs[s].tempId].progress = FullProgress
                /\ \A id \in DOMAIN jobs \ {subs[s].tempId} : jobs'[id] = jobs[id]
       /\ (\E s \in Subs : ReadStep(s)) => DOMAIN jobs' = DOMAIN jobs]_vars

\* C35 witness: a submission made at clock reading 1 has failed on a
\* non-success status; its placeholder is failed at progress 100, beside the
\* placeholder and the server record of an earlier submission.
C35_Witness ==
    \E s \in Subs :
        /\ subs[s].pc = "failed"
        /\ subs[s].name = HttpErrorName
        /\ DOMAIN jobs = {"job-0", "job-1", "j1"}
        /\ jobs["job-1"].status = "failed" /\ jobs["job-1"].progress = FullProgress
        /\ jobs["job-0"].status = "queued"
        /\ jobs["j1"].status = "completed"

\* C36: when a streamed submission returns, the record under its temporary id
\* keeps the status and the progress the events of the stream gave it: the end
\* of the stream does not write it back to queued or to a lower progress.
C36_StreamEndKeepsRecord ==
    [][\A s \in Subs :
          StreamReturns(s) =>
             /\ jobs'[subs[s].tempId].status = jobs[subs[s].tempId].status
             /\ jobs'[subs[s].tempId].progress = jobs[subs[s].tempId].progress]_vars

\* C37: a response with a non-success status that declares an event stream is
\* reported as an error: the reading of its body never ends in a normal
\* return of createSynthesisJob.
C37_NonOkStreamIsError ==
    [][\A s \in Subs : ~subs[s].ok => ~StreamReturns(s)]_vars

\* C38: submissions do not share a placeholder: while the validated
\* submissions all wait for their response, the registry holds one placeholder
\* record for each of them.
C38_PlaceholdersDistinct ==
    (\A s \in Submitted : subs[s].pc = "fetch") =>
        /\ Cardinality(DOMAIN jobs) = Cardinality(Submitted)
        /\ \A s, r \in Submitted : s # r => subs[s].tempId # subs[r].tempId

\* The request of pollJob failed: no response, or a non-success status.
PollFailed == pResponse = NoPoll \/ ~pResponse.ok

\* C39: pollJob never raises; when the request fails it returns null, and for
\* a job document it returns a state with the id, status, plan and artifacts
\* of the document, at progress 100 if the status is completed and 50 if not.
C39_PollNeverRaises ==
    /\ pResult.kind # "raised"
    /\ pPc = "returned" =>
          /\ PollFailed => pResult = [kind |-> "null"]
          /\ (~PollFailed /\ pResponse.body.kind = "object") =>
                LET doc == pResponse.body.value
                    state == pResult.value
                IN /\ pResult.kind = "object"
                   /\ state.id = doc.job_id
                   /\ state.status = doc.status
                   /\ state.plan = doc.plan
                   /\ state.artifacts = doc.artifacts
                   /\ doc.status = "completed" => state.progress = FullProgress
                   /\ doc.status # "completed" => state.progress = PollProgress

\* C39 witness: pollJob called for j1 has returned the state of a document
\* that names j2, completed with an audio artifact, at progress 100.
C39_Witness ==
    /\ pPc = "returned"
    /\ pJobId = "j1"
    /\ pResult.kind = "object"
    /\ pResult.value.id = "j2"
    /\ pResult.value.status = "completed"
    /\ pResult.value.artifacts = AudioArtifacts
    /\ pResult.value.progress = FullProgress

====
